---- MODULE Spec2Model ----
(***************************************************************************)
(* Model of internal/provider/resource_team_label.go: the Terraform        *)
(* resource "<provider>_team_label" (Configure, Create, Read, Update,      *)
(* Delete, ImportState) on top of a remote label store.                    *)
(*                                                                         *)
(* Every Go string is a sequence of tokens; "" is << >>.  A token is one   *)
(* character where the code looks inside the string (the import            *)
(* identifier, label names, team keys) and a whole opaque string elsewhere *)
(* (identifiers, colors, descriptions, error texts).                       *)
(***************************************************************************)
EXTENDS Naturals, Sequences, FiniteSets

\* ------------------------------------------------------------------ bounds

\* Longest import identifier the host passes to ImportState, in characters.
MaxIdLen == 3

\* ------------------------------------------------------- values and types

\* Characters an import identifier is made of.
Alphabet == {"a", "k", ":"}

\* Identifiers the server assigns.
Ids == {<<"i1">>, <<"i2">>}

Names == {<<"a">>}
Descriptions == {<<"d">>}
TeamIds == {<<"t1">>}
\* Colors the color pattern accepts, and the one the server gives a label
\* created without a color.
ValidColors == {<<"#c1">>, <<"#def">>}
DefaultColor == <<"#def">>
\* The texts of the errors a remote call returns.
ErrTexts == {<<"e1">>, <<"e2">>}

\* types.String: a value that is unknown, null, or known with a Value.  The
\* Value of an unknown or null string is Go's zero value "".
Str(v) == [Unknown |-> FALSE, Null |-> FALSE, Value |-> v]
NullStr == [Unknown |-> FALSE, Null |-> TRUE, Value |-> << >>]
UnknownStr == [Unknown |-> TRUE, Null |-> FALSE, Value |-> << >>]

\* A *string (or *Team, held by its Id) of a generated request or response.
Ptr(v) == [isNil |-> FALSE, v |-> v]
NilPtr == [isNil |-> TRUE, v |-> << >>]

\* TeamLabelResourceModel with every attribute null: the state of a resource
\* that does not exist.
EmptyModel ==
  [Id |-> NullStr, Name |-> NullStr, Description |-> NullStr,
   Color |-> NullStr, TeamId |-> NullStr]

NoLabel ==
  [Id |-> << >>, Name |-> << >>, Description |-> NilPtr, Color |-> NilPtr,
   Team |-> NilPtr]

\* The key of a team, which findTeamLabel filters on.
TeamKey(t) == IF t = <<"t1">> THEN <<"k">> ELSE << >>

\* ------------------------------------------------------------- the schema

\* colorRegex() and uuidRegex(): the strings the patterns accept.
colorRegex(s) == s \in ValidColors
uuidRegex(s) == s \in TeamIds

\* What the practitioner may write: name and team_id are required,
\* description and color optional.
ConfigNames == Names
ConfigTeamIds == TeamIds
ConfigColors == {<<"#c1">>, <<"red">>}
Configs ==
  [Name : {Str(n) : n \in ConfigNames},
   Description : {NullStr} \cup {Str(d) : d \in Descriptions},
   Color : {NullStr} \cup {Str(c) : c \in ConfigColors},
   TeamId : {Str(t) : t \in ConfigTeamIds}]

\* The validators of GetSchema: MinLength(1) on name, Match(colorRegex()) on
\* color, Match(uuidRegex()) on team_id.  A validator skips a null value.
NameValid(cfg) == Len(cfg.Name.Value) >= 1
\* The color validator left out of the schema.
ColorValidSkipped(cfg) == TRUE
ColorValid(cfg) == cfg.Color.Null \/ colorRegex(cfg.Color.Value)
TeamIdValid(cfg) == uuidRegex(cfg.TeamId.Value)
SchemaValid(cfg) == NameValid(cfg) /\ ColorValid(cfg) /\ TeamIdValid(cfg)

\* The plan modifiers of GetSchema.  id and color are computed and keep the
\* prior state's value when the configuration gives none
\* (UseStateForUnknown); a description absent from the configuration is
\* planned null (NullableString).
PlanId(hasPrior, prior) ==
  IF hasPrior /\ ~prior.Id.Null THEN prior.Id ELSE UnknownStr
PlanColor(cfg, hasPrior, prior) ==
  IF ~cfg.Color.Null THEN cfg.Color
  ELSE IF hasPrior /\ ~prior.Color.Null THEN prior.Color
  ELSE UnknownStr
PlanFor(cfg, hasPrior, prior) ==
  [Id |-> PlanId(hasPrior, prior),
   Name |-> cfg.Name,
   Description |-> cfg.Description,
   Color |-> PlanColor(cfg, hasPrior, prior),
   TeamId |-> cfg.TeamId]

\* --------------------------------------------------------- strings.Split

RECURSIVE IndexOf(_, _, _)
\* The first position >= i of s holding sep, or 0.
IndexOf(s, sep, i) ==
  IF i > Len(s) THEN 0
  ELSE IF s[i] = sep THEN i
  ELSE IndexOf(s, sep, i + 1)

RECURSIVE Split(_, _)
\* strings.Split(s, sep) for a one-character sep: the substrings between the
\* separators, one more than there are separators.
Split(s, sep) ==
  LET i == IndexOf(s, sep, 1)
  IN  IF i = 0 THEN <<s>>
      ELSE <<SubSeq(s, 1, i - 1)>> \o Split(SubSeq(s, i + 1, Len(s)), sep)

RECURSIVE SeqsOfLen(_, _)
SeqsOfLen(S, n) ==
  IF n = 0 THEN {<< >>}
  ELSE {Append(s, c) : s \in SeqsOfLen(S, n - 1), c \in S}

\* The identifiers `terraform import` may be given.
ImportIds == UNION {SeqsOfLen(Alphabet, n) : n \in 0..MaxIdLen}

\* --------------------------------------------------------- the remote API
\* The label store behind the GraphQL client: a set of labels with distinct
\* Ids.  Each operation yields the set of results the call may return: a
\* response with the store it leaves, or an error with its text.  A call may
\* fail for a reason of its own ("other": transport, authorization) whatever
\* the store holds, and fails with cause "not_found" when the label it names
\* is not in the store.  The text of an error is the client library's: the
\* adapter never inspects it.

Failure(st, cause) ==
  {[ok |-> FALSE, label |-> NoLabel, nodes |-> {}, err |-> e, cause |-> cause,
    store |-> st] : e \in ErrTexts}

Success(l, nodes, st) ==
  [ok |-> TRUE, label |-> l, nodes |-> nodes, err |-> << >>, cause |-> "",
   store |-> st]

Lookup(st, id) == {l \in st : l.Id = id}

\* A field of the response: what was sent, or nothing for a field the server
\* does not hold or does not return.
Returned(p) == {p, NilPtr}

\* issueLabelCreate: a new label under an identifier never given before.  A
\* label sent without a color gets the server's default.
createLabel(input, st, usedIds) ==
  Failure(st, "other") \cup
  {Success(l, {}, st \cup {l}) :
     l \in [Id : Ids \ usedIds,
            Name : {input.name},
            Description : Returned(input.description),
            Color : Returned(IF input.color.isNil \/ input.color.v = << >>
                             THEN Ptr(DefaultColor) ELSE input.color),
            Team : Returned(input.teamId)]}

\* issueLabel(id).
getLabel(id, st) ==
  Failure(st, "other") \cup
  (IF Lookup(st, id) = {} THEN Failure(st, "not_found")
   ELSE {Success(l, {}, st) : l \in Lookup(st, id)})

\* issueLabelUpdate(id, input): the label keeps its identifier and its team; a
\* field that is not sent keeps its value.
updateLabel(input, id, st) ==
  Failure(st, "other") \cup
  (IF Lookup(st, id) = {} THEN Failure(st, "not_found")
   ELSE UNION {
     {Success(l, {}, (st \ {old}) \cup {l}) :
        l \in [Id : {old.Id},
               Name : {input.name},
               Description : Returned(IF input.description.isNil
                                      THEN old.Description
                                      ELSE input.description),
               Color : Returned(IF input.color.isNil \/ input.color.v = << >>
                                THEN old.Color ELSE input.color),
               Team : Returned(old.Team)]} : old \in Lookup(st, id)})

\* issueLabelDelete(id).
deleteLabel(id, st) ==
  Failure(st, "other") \cup
  (IF Lookup(st, id) = {} THEN Failure(st, "not_found")
   ELSE {Success(NoLabel, {}, st \ Lookup(st, id))})

\* issueLabels(filter: name, team key): every label of that name in the team
\* with that key.
findTeamLabel(name, key, st) ==
  Failure(st, "other") \cup
  {Success(NoLabel,
           {l \in st : l.Name = name /\ ~l.Team.isNil /\ TeamKey(l.Team.v) = key},
           st)}

\* A request as it leaves the adapter.
Request(op, id, name, description, color, teamId, key) ==
  [op |-> op, id |-> id, name |-> name, description |-> description,
   color |-> color, teamId |-> teamId, key |-> key]

\* ------------------------------------------------------------ diagnostics

Diag(summary, detail, arg) == [summary |-> summary, detail |-> detail, arg |-> arg]

\* ------------------------------------------------------------------ state

VARIABLES
  client,     \* r.client: "nil" until Configure stores the provider's client
  configured, \* the host has called Configure on the resource
  crashed,    \* the provider process has panicked
  hasState,   \* the host holds a state for the resource
  state,      \* that state (EmptyModel when there is none)
  store,      \* the labels the server holds
  used,       \* the identifiers the server has given out
  fresh,      \* the latest invocation was a successful Create, and the store
              \* has not changed since
  last,       \* the latest invocation: what it was given, did and returned
  createdId,  \* the identifier the latest successful Create stored
  readErrors  \* the diagnostics of the latest Read whose call failed though
              \* the label existed

vars ==
  <<client, configured, crashed, hasState, state, store, used, fresh, last, createdId,
    readErrors>>

\* The provider data Configure may be handed: none, the provider's
\* *graphql.Client, or a value of another type.
ProviderData == {"nil", "client", "wrong"}

\* The result of an invocation that made no remote call.
NoResult == Success(NoLabel, {}, {})

\* An invocation: its handler, how it ended ("ok", "error": it returned error
\* diagnostics, "panic"), the result r of its remote call (the cause and text
\* of its error, or the label or nodes of its response), the diagnostics it
\* returned, the remote requests it issued, the plan (for Validate, the
\* configuration) it read, the identifier it was about, and the state it
\* found.
Invocation(name, outcome, r, diags, calls, plan, id) ==
  [name |-> name, outcome |-> outcome, cause |-> r.cause, err |-> r.err,
   resp |-> r.label, nodes |-> r.nodes, diags |-> diags, calls |-> calls,
   plan |-> plan, id |-> id, before |-> state, hadState |-> hasState,
   afterCreate |-> fresh]

\* An invocation ends: it becomes the latest one.
Return(inv) ==
  /\ last' = inv
  /\ fresh' = (inv.name = "Create" /\ inv.outcome = "ok")

\* `*r.client` with r.client nil: a nil pointer dereference.  The panic is
\* raised while the arguments of the remote call are evaluated, before the
\* call and before anything is written.
Panic(name, plan, id) ==
  /\ crashed' = TRUE
  /\ Return(Invocation(name, "panic", NoResult,
                       << >>, << >>,
                       plan, id))
  /\ UNCHANGED <<client, configured, hasState, state, store, used, createdId, readErrors>>

Init ==
  /\ client = "nil"
  /\ configured = FALSE
  /\ crashed = FALSE
  /\ hasState = FALSE
  /\ state = EmptyModel
  /\ store = {}
  /\ used = {}
  /\ fresh = FALSE
  /\ last = [name |-> "", outcome |-> "", cause |-> "", err |-> << >>,
             resp |-> NoLabel, nodes |-> {}, diags |-> << >>, calls |-> << >>,
             plan |-> EmptyModel, id |-> << >>, before |-> EmptyModel,
             hadState |-> FALSE, afterCreate |-> FALSE]
  /\ createdId = << >>
  /\ readErrors = << >>

\* -------------------------------------------------------------- Configure
\* The host calls Configure on a resource before any other handler of it.

ConfigureDiags(pd) ==
  IF pd = "wrong"
  THEN <<Diag("Unexpected Resource Configure Type",
              "Expected *graphql.Client, got: %T. Please report this issue to the provider developers.",
              <<pd>>)>>
  ELSE << >>

ConfigureClient(pd, old) == IF pd = "client" THEN pd ELSE old

Configure(pd) ==
  /\ ~crashed
  /\ client' = ConfigureClient(pd, client)
  /\ configured' = TRUE
  /\ Return(Invocation("Configure", IF pd = "wrong" THEN "error" ELSE "ok", NoResult,
                       ConfigureDiags(pd), << >>,
                       EmptyModel, << >>))
  /\ UNCHANGED <<crashed, hasState, state, store, used, createdId, readErrors>>

\* ----------------------------------------------------- schema validation
\* The host validates a configuration against the schema before it plans:
\* a configuration a validator rejects reaches no handler.

ValidateDiags(cfg) ==
  (IF NameValid(cfg) THEN << >>
   ELSE <<Diag("Invalid Attribute Value Length", "name", cfg.Name.Value)>>)
  \o (IF ColorValid(cfg) THEN << >>
      ELSE <<Diag("Invalid Attribute Value Match", "color", cfg.Color.Value)>>)
  \o (IF TeamIdValid(cfg) THEN << >>
      ELSE <<Diag("Invalid Attribute Value Match", "team_id", cfg.TeamId.Value)>>)

ValidateConfig(cfg) ==
  /\ ~crashed
  /\ ~SchemaValid(cfg)
  /\ Return(Invocation("Validate", "error", NoResult,
                       ValidateDiags(cfg), << >>,
                       cfg, << >>))
  /\ UNCHANGED <<client, configured, crashed, hasState, state, store, used, createdId,
                 readErrors>>

\* ------------------------------------------------------------------ Create

CreateInput(data) ==
  Request("createLabel", << >>, data.Name.Value,
          IF ~data.Description.Null THEN Ptr(data.Description.Value) ELSE NilPtr,
          IF ~data.Color.Unknown THEN Ptr(data.Color.Value) ELSE NilPtr,
          Ptr(data.TeamId.Value), << >>)

CreateError(err) ==
  Diag("Client Error", "Unable to create team label, got error: %s", err)

\* data after the response's fields are copied into it.
CreateState(data, issueLabel) ==
  [Id |-> Str(issueLabel.Id),
   Name |-> Str(issueLabel.Name),
   Description |-> IF ~issueLabel.Description.isNil
                   THEN Str(issueLabel.Description.v) ELSE data.Description,
   Color |-> IF ~issueLabel.Color.isNil
             THEN Str(issueLabel.Color.v) ELSE data.Color,
   TeamId |-> IF ~issueLabel.Team.isNil
              THEN Str(issueLabel.Team.v) ELSE data.TeamId]

Create(cfg) ==
  /\ ~crashed
  /\ configured
  /\ ~hasState
  /\ SchemaValid(cfg)
  /\ LET data == PlanFor(cfg, FALSE, state)
         input == CreateInput(data)
     IN  IF client = "nil" THEN Panic("Create", data, << >>)
         ELSE \E r \in createLabel(input, store, used) :
                /\ store' = r.store
                /\ used' = used \cup {l.Id : l \in r.store}
                /\ IF ~r.ok
                   THEN /\ Return(Invocation("Create", "error", r,
                                             <<CreateError(r.err)>>, <<input>>,
                                             data, << >>))
                        /\ UNCHANGED <<hasState, state, createdId>>
                   ELSE /\ state' = CreateState(data, r.label)
                        /\ hasState' = TRUE
                        /\ createdId' = state'.Id.Value
                        /\ Return(Invocation("Create", "ok", r,
                                             << >>, <<input>>,
                                             data, << >>))
                /\ UNCHANGED <<client, configured, crashed, readErrors>>

\* -------------------------------------------------------------------- Read

ReadError(err) ==
  Diag("Client Error", "Unable to read team label, got error: %s", err)

\* Read clearing what the response does not hold, unlike Create.
ReadStateClearing(data, issueLabel) ==
  [Id |-> Str(issueLabel.Id),
   Name |-> Str(issueLabel.Name),
   Description |-> IF ~issueLabel.Description.isNil
                   THEN Str(issueLabel.Description.v) ELSE NullStr,
   Color |-> IF ~issueLabel.Color.isNil
             THEN Str(issueLabel.Color.v) ELSE NullStr,
   TeamId |-> IF ~issueLabel.Team.isNil
              THEN Str(issueLabel.Team.v) ELSE NullStr]

ReadState(data, issueLabel) ==
  [Id |-> Str(issueLabel.Id),
   Name |-> Str(issueLabel.Name),
   Description |-> IF ~issueLabel.Description.isNil
                   THEN Str(issueLabel.Description.v) ELSE data.Description,
   Color |-> IF ~issueLabel.Color.isNil
             THEN Str(issueLabel.Color.v) ELSE data.Color,
   TeamId |-> IF ~issueLabel.Team.isNil
              THEN Str(issueLabel.Team.v) ELSE data.TeamId]

Read ==
  /\ ~crashed
  /\ configured
  /\ hasState
  /\ LET data == state
         id == data.Id.Value
         req == Request("getLabel", id, << >>, NilPtr, NilPtr, NilPtr, << >>)
     IN  IF client = "nil" THEN Panic("Read", EmptyModel, id)
         ELSE \E r \in getLabel(id, store) :
                /\ store' = r.store
                /\ IF ~r.ok
                   THEN /\ Return(Invocation("Read", "error", r,
                                             <<ReadError(r.err)>>, <<req>>,
                                             EmptyModel, id))
                        /\ readErrors' = IF r.cause = "other"
                                         THEN <<ReadError(r.err)>>
                                         ELSE readErrors
                        /\ UNCHANGED <<hasState, state>>
                   ELSE /\ state' = ReadState(data, r.label)
                        /\ hasState' = TRUE
                        /\ Return(Invocation("Read", "ok", r,
                                             << >>, <<req>>,
                                             EmptyModel, id))
                        /\ UNCHANGED readErrors
                /\ UNCHANGED <<client, configured, crashed, used, createdId>>

\* ------------------------------------------------------------------ Update

UpdateInput(data) ==
  Request("updateLabel", data.Id.Value, data.Name.Value,
          IF ~data.Description.Null THEN Ptr(data.Description.Value) ELSE NilPtr,
          IF ~data.Color.Unknown THEN Ptr(data.Color.Value) ELSE NilPtr,
          NilPtr, << >>)

UpdateError(err) ==
  Diag("Client Error", "Unable to update team label, got error: %s", err)

\* Update taking the identifier from the wrong field of the response.
UpdateStateIdFromName(data, issueLabel) ==
  [Id |-> Str(issueLabel.Name),
   Name |-> Str(issueLabel.Name),
   Description |-> IF ~issueLabel.Description.isNil
                   THEN Str(issueLabel.Description.v) ELSE data.Description,
   Color |-> IF ~issueLabel.Color.isNil
             THEN Str(issueLabel.Color.v) ELSE data.Color,
   TeamId |-> IF ~issueLabel.Team.isNil
              THEN Str(issueLabel.Team.v) ELSE data.TeamId]

UpdateState(data, issueLabel) ==
  [Id |-> Str(issueLabel.Id),
   Name |-> Str(issueLabel.Name),
   Description |-> IF ~issueLabel.Description.isNil
                   THEN Str(issueLabel.Description.v) ELSE data.Description,
   Color |-> IF ~issueLabel.Color.isNil
             THEN Str(issueLabel.Color.v) ELSE data.Color,
   TeamId |-> IF ~issueLabel.Team.isNil
              THEN Str(issueLabel.Team.v) ELSE data.TeamId]

\* The host updates in place only while team_id is unchanged: a change of
\* team_id replaces the resource (RequiresReplace), by Delete and Create.
Update(cfg) ==
  /\ ~crashed
  /\ configured
  /\ hasState
  /\ SchemaValid(cfg)
  /\ cfg.TeamId = state.TeamId
  /\ LET data == PlanFor(cfg, TRUE, state)
         input == UpdateInput(data)
     IN  IF client = "nil" THEN Panic("Update", data, input.id)
         ELSE \E r \in updateLabel(input, input.id, store) :
                /\ store' = r.store
                /\ IF ~r.ok
                   THEN /\ Return(Invocation("Update", "error", r,
                                             <<UpdateError(r.err)>>, <<input>>,
                                             data, input.id))
                        /\ UNCHANGED <<hasState, state>>
                   ELSE /\ state' = UpdateState(data, r.label)
                        /\ hasState' = TRUE
                        /\ Return(Invocation("Update", "ok", r,
                                             << >>, <<input>>,
                                             data, input.id))
                /\ UNCHANGED <<client, configured, crashed, used, createdId, readErrors>>

\* ------------------------------------------------------------------ Delete

\* Delete's diagnostic without the error it reports.
DeleteErrorNoText(err) ==
  Diag("Client Error", "Unable to delete team label", << >>)

DeleteError(err) ==
  Diag("Client Error", "Unable to delete team label, got error: %s", err)

\* Delete writes no state of its own; the host drops the state of a resource
\* whose Delete returned no error.
Delete ==
  /\ ~crashed
  /\ configured
  /\ hasState
  /\ LET id == state.Id.Value
         req == Request("deleteLabel", id, << >>, NilPtr, NilPtr, NilPtr, << >>)
     IN  IF client = "nil" THEN Panic("Delete", EmptyModel, id)
         ELSE \E r \in deleteLabel(id, store) :
                /\ store' = r.store
                /\ IF ~r.ok
                   THEN /\ Return(Invocation("Delete", "error", r,
                                             <<DeleteError(r.err)>>, <<req>>,
                                             EmptyModel, id))
                        /\ UNCHANGED <<hasState, state, createdId>>
                   ELSE /\ state' = EmptyModel
                        /\ hasState' = FALSE
                        /\ createdId' = << >>
                        /\ Return(Invocation("Delete", "ok", r,
                                             << >>, <<req>>,
                                             EmptyModel, id))
                /\ UNCHANGED <<client, configured, crashed, used, readErrors>>

\* ------------------------------------------------------------- ImportState

\* The check of the parts without the tests for an empty part.
ImportMalformedLenOnly(parts) == Len(parts) # 2

\* len(parts) != 2 || parts[0] == "" || parts[1] == ""
ImportMalformed(parts) ==
  Len(parts) # 2 \/ parts[1] = << >> \/ parts[2] = << >>

ImportFormatError(id) ==
  Diag("Unexpected Import Identifier",
       "Expected import identifier with format: label_name:team_key. Got: %q", id)

ImportError(err) ==
  Diag("Client Error", "Unable to import team label, got error: %s", err)

ImportNotFound ==
  Diag("Client Error", "Unable to import team label, got error: label not found",
       << >>)

\* The check of the matches testing only for none.
ImportNoMatch(nodes) == Cardinality(nodes) = 0

\* len(response.IssueLabels.Nodes) != 1
ImportNoSingleMatch(nodes) == Cardinality(nodes) # 1

\* State.SetAttribute(path.Root("id"), Nodes[0].Id) on the empty state of an
\* import.
ImportedState(nodes) ==
  [EmptyModel EXCEPT !.Id = Str((CHOOSE l \in nodes : TRUE).Id)]

ImportState(id) ==
  /\ ~crashed
  /\ configured
  /\ ~hasState
  /\ LET parts == Split(id, ":")
     IN  IF ImportMalformed(parts)
         THEN /\ Return(Invocation("ImportState", "error", NoResult,
                                   <<ImportFormatError(id)>>, << >>,
                                   EmptyModel, id))
              /\ UNCHANGED <<client, configured, crashed, hasState, state, store, used,
                             createdId, readErrors>>
         ELSE IF client = "nil" THEN Panic("ImportState", EmptyModel, id)
         ELSE LET req == Request("findTeamLabel", << >>, parts[1], NilPtr,
                                 NilPtr, NilPtr, parts[2])
              IN  \E r \in findTeamLabel(parts[1], parts[2], store) :
                    /\ store' = r.store
                    /\ IF ~r.ok
                       THEN /\ Return(Invocation("ImportState", "error", r,
                                                 <<ImportError(r.err)>>, <<req>>,
                                                 EmptyModel, id))
                            /\ UNCHANGED <<hasState, state>>
                       ELSE IF ImportNoSingleMatch(r.nodes)
                       THEN /\ Return(Invocation("ImportState", "error", r,
                                                 <<ImportNotFound>>, <<req>>,
                                                 EmptyModel, id))
                            /\ UNCHANGED <<hasState, state>>
                       ELSE /\ state' = ImportedState(r.nodes)
                            /\ hasState' = TRUE
                            /\ Return(Invocation("ImportState", "ok", r,
                                                 << >>, <<req>>,
                                                 EmptyModel, id))
                    /\ UNCHANGED <<client, configured, crashed, used, createdId, readErrors>>

\* --------------------------------------------------------- the environment
\* Other clients of the server create, edit and delete labels.

RemoteLabels ==
  [Id : Ids, Name : Names, Description : {NilPtr}, Color : {Ptr(DefaultColor)},
   Team : {Ptr(t) : t \in TeamIds}]

RemoteCreate(l) ==
  /\ ~crashed
  /\ l.Id \notin used
  /\ store' = store \cup {l}
  /\ used' = used \cup {l.Id}
  /\ fresh' = FALSE
  /\ UNCHANGED <<client, configured, crashed, hasState, state, last, createdId, readErrors>>

RemoteEdit(l, description) ==
  /\ ~crashed
  /\ l \in store
  /\ l.Description # description
  /\ store' = (store \ {l}) \cup {[l EXCEPT !.Description = description]}
  /\ fresh' = FALSE
  /\ UNCHANGED <<client, configured, crashed, hasState, state, used, last, createdId,
                 readErrors>>

RemoteDelete(l) ==
  /\ ~crashed
  /\ l \in store
  /\ store' = store \ {l}
  /\ fresh' = FALSE
  /\ UNCHANGED <<client, configured, crashed, hasState, state, used, last, createdId,
                 readErrors>>

Next ==
  \/ \E pd \in ProviderData : Configure(pd)
  \/ \E cfg \in Configs : ValidateConfig(cfg)
  \/ \E cfg \in Configs : Create(cfg)
  \/ Read
  \/ \E cfg \in Configs : Update(cfg)
  \/ Delete
  \/ \E id \in ImportIds : ImportState(id)
  \/ \E l \in RemoteLabels : RemoteCreate(l)
  \/ \E l \in store, d \in {NilPtr} \cup {Ptr(x) : x \in Descriptions} :
       RemoteEdit(l, d)
  \/ \E l \in store : RemoteDelete(l)

Spec == Init /\ [][Next]_vars

\* ------------------------------------------------------------- properties

\* A field of a response as a state value: null for a field the response
\* does not hold.
FromPtr(p) == IF p.isNil THEN NullStr ELSE Str(p.v)

\* The state that holds exactly what a response holds.
ModelOf(issueLabel) ==
  [Id |-> Str(issueLabel.Id), Name |-> Str(issueLabel.Name),
   Description |-> FromPtr(issueLabel.Description),
   Color |-> FromPtr(issueLabel.Color), TeamId |-> FromPtr(issueLabel.Team)]

Succeeded(name) == last.name = name /\ last.outcome = "ok"

\* The invocation left the local state as it found it.
WroteNothing == state = last.before /\ hasState = last.hadState

\* C1.  A successful Read that directly follows a successful Create, with no
\* change of the store in between, leaves the state exactly as Create wrote
\* it: the same id, name, description, color and team_id.
C1_CreateThenRead ==
  (Succeeded("Read") /\ last.afterCreate) => (hasState /\ state = last.before)

\* Such a Read, of a label created with a planned description the response
\* did not hold and a color left to the server.
C1_Witness ==
  /\ Succeeded("Read") /\ last.afterCreate
  /\ last.resp.Description.isNil /\ ~state.Description.Null
  /\ state.Color = Str(DefaultColor)

\* C2.  After every successful Create or Update each field of the state equals
\* the corresponding field of the response, a field the response does not hold
\* being null in the state.
C2_StateEqualsResponse ==
  (Succeeded("Create") \/ Succeeded("Update")) => state = ModelOf(last.resp)

\* An import identifier with exactly one ':' that is neither its first nor its
\* last character.
Colons(id) == {i \in 1..Len(id) : id[i] = ":"}
WellFormedId(id) ==
  Cardinality(Colons(id)) = 1 /\ id[1] # ":" /\ id[Len(id)] # ":"

\* C3.  ImportState of an identifier that is not two non-empty parts around
\* one ':' returns the 'Unexpected Import Identifier' error alone, issues no
\* remote call and leaves the state as it was.
C3_MalformedImport ==
  (last.name = "ImportState" /\ ~WellFormedId(last.id)) =>
    /\ last.outcome = "error"
    /\ last.diags = <<ImportFormatError(last.id)>>
    /\ last.diags[1].summary = "Unexpected Import Identifier"
    /\ last.calls = << >>
    /\ WroteNothing

\* ImportState of an identifier with an empty team key, before Configure
\* stored a client.
C3_Witness ==
  /\ last.name = "ImportState"
  /\ last.id = <<"a", ":">>
  /\ client = "nil"

\* C4.  ImportState of a well-formed identifier whose lookup returned: with
\* no match or several, the 'label not found' error and no id in the state;
\* with exactly one match, that match's id in the state and no error.
C4_ImportMatches ==
  (last.name = "ImportState" /\ WellFormedId(last.id)
     /\ last.outcome # "panic" /\ last.cause = "") =>
    IF Cardinality(last.nodes) = 1
    THEN /\ last.outcome = "ok"
         /\ last.diags = << >>
         /\ hasState
         /\ \A l \in last.nodes : state.Id = Str(l.Id)
    ELSE /\ last.outcome = "error"
         /\ last.diags = <<ImportNotFound>>
         /\ ~hasState
         /\ state.Id.Null

\* An import whose lookup matched two labels.
C4_Witness ==
  /\ last.name = "ImportState" /\ WellFormedId(last.id)
  /\ Cardinality(last.nodes) = 2

\* C5.  After a successful Update of a resource that Create made, the id in
\* the state is the id Create stored.
C5_UpdatePreservesId ==
  (Succeeded("Update") /\ createdId # << >>) => state.Id = Str(createdId)

\* A successful Update of a created resource that changed its description.
C5_Witness ==
  /\ Succeeded("Update") /\ createdId # << >>
  /\ state.Description # last.before.Description

\* C6.  What a Read of a label that no longer exists returns differs from what
\* a Read returns whose call failed for another reason.  Both leave the state
\* as it was, so what they return is their diagnostics.
C6_ReadNotFoundDistinct ==
  (last.name = "Read" /\ last.cause = "not_found") => last.diags # readErrors

RemoteHandlers == {"Create", "Read", "Update", "Delete", "ImportState"}

\* C7.  No invocation issues more than one remote call, and one whose remote
\* call returned an error returns a single 'Client Error' diagnostic with the
\* text of that error, having issued that one call and written nothing.
C7_RemoteFailure ==
  /\ Len(last.calls) <= 1
  /\ (last.name \in RemoteHandlers /\ last.cause \in {"other", "not_found"}) =>
       /\ last.outcome = "error"
       /\ Len(last.diags) = 1
       /\ last.diags[1].summary = "Client Error"
       /\ last.err \in ErrTexts
       /\ last.diags[1].arg = last.err
       /\ Len(last.calls) = 1
       /\ WroteNothing

\* A Delete of a label that is no longer there.
C7_Witness ==
  last.name = "Delete" /\ last.cause = "not_found" /\ hasState

\* C8.  Once Configure has been called, whatever provider data it was given,
\* no invocation panics.
C8_NoCrash == configured => (~crashed /\ last.outcome # "panic")

\* C9.  No createLabel or updateLabel request carries a color the pattern
\* rejects: a configuration with such a color is rejected by validation, with
\* no remote call, and the color of every plan Create or Update reads is
\* unknown or matches.
C9_InvalidColorNeverSent ==
  /\ \A i \in 1..Len(last.calls) :
       (last.calls[i].op \in {"createLabel", "updateLabel"}
          /\ ~last.calls[i].color.isNil) => colorRegex(last.calls[i].color.v)
  /\ last.name = "Validate" => (last.outcome = "error" /\ last.calls = << >>)
  /\ last.name \in {"Create", "Update"} =>
       (last.plan.Color.Unknown \/ colorRegex(last.plan.Color.Value))

\* A configuration whose color the pattern rejects, rejected.
C9_Witness ==
  /\ last.name = "Validate"
  /\ ~last.plan.Color.Null /\ ~colorRegex(last.plan.Color.Value)
  /\ last.calls = << >> /\ WroteNothing

\* C10.  Create and Update send a color exactly when the planned color is not
\* unknown and a description exactly when the planned description is not
\* null, and after a successful Create planned with an unknown color the
\* color in the state is the color of the response.
C10_ColorServerDefaulted ==
  /\ (last.name \in {"Create", "Update"} /\ Len(last.calls) = 1) =>
       /\ ~last.calls[1].color.isNil <=> ~last.plan.Color.Unknown
       /\ ~last.calls[1].description.isNil <=> ~last.plan.Description.Null
  /\ (Succeeded("Create") /\ last.plan.Color.Unknown) =>
       state.Color = FromPtr(last.resp.Color)

====
